---------------------------- MODULE Spec2Model ----------------------------
(***************************************************************************)
(* sensor_common: the wire codec (lib.rs, props/mod.rs) and the property   *)
(* handling engine (props/handling.rs), modelled as state machines whose   *)
(* actions are the codec and responder entry points.                       *)
(*                                                                         *)
(* Rust values are records: an enum value carries its variant in `tag`,    *)
(* an Option is [some |-> FALSE] or [some |-> TRUE, v |-> x], a byte is a  *)
(* number in 0..255, a slice / Vec / str is a sequence of bytes.           *)
(* A Result<usize, Error> of a write is [err, n, w]: err is "Ok" or the    *)
(* Error variant, n the returned count, w the writer afterwards (bytes     *)
(* written before a failure stay written).  A Result of a read is          *)
(* [err, val, r] likewise.                                                 *)
(***************************************************************************)
EXTENDS Integers, Sequences, FiniteSets, TLC

VARIABLES
    pc,       \* position of the scenario: "start", "written", "read", "done"
    input,    \* the scenario's input, drawn in Init
    wres,     \* result of the last write operation (with the writer)
    rres,     \* result of the last read operation (with the reader)
    wire,     \* the bytes handed to the last read operation
    calls,    \* property callbacks invoked so far, in order
    send_counter,  \* dispatch_async: the loop variable of the attempts
    rx_buffer,     \* dispatch_async: the receive buffer (`buffer`)
    events,        \* dispatch_async: the socket operations started and completed, in order
    result         \* dispatch_async: the value returned, once it returned

vars == <<pc, input, wres, rres, wire, calls, send_counter, rx_buffer, events, result>>

\* no dispatch is under way
NoDispatch ==
    /\ send_counter = 0
    /\ rx_buffer = <<>>
    /\ events = <<>>
    /\ result = [tag |-> "Pending"]

(***************************************************************************)
(* Program constants.                                                      *)
(***************************************************************************)
U8_MAX == 255
PID_PATH_MAX_DEPTH == 8
ModulePrefixLen == 4

None == [some |-> FALSE]
Some(x) == [some |-> TRUE, v |-> x]

Min(a, b) == IF a < b THEN a ELSE b

\* slice[..n]
Take(s, n) == SubSeq(s, 1, n)
\* slice[n..]
Drop(s, n) == SubSeq(s, n + 1, Len(s))

(***************************************************************************)
(* 4.A  Byte I/O: impl Write for &mut [u8], impl Read for &[u8].           *)
(* A slice writer is its capacity and the bytes written so far; a slice    *)
(* reader is the bytes left.  `tags` records, for each discriminant byte   *)
(* a decoder matched on, the family and the byte (observation only).       *)
(***************************************************************************)
Writer(cap) == [cap |-> cap, out |-> <<>>]
Reader(bytes) == [data |-> bytes, tags |-> <<>>]

WOk(n, w) == [err |-> "Ok", n |-> n, w |-> w]
WErr(e, w) == [err |-> e, n |-> 0, w |-> w]
ROk(v, r) == [err |-> "Ok", val |-> v, r |-> r]
RErr(e, r) == [err |-> e, val |-> <<>>, r |-> r]

\* <&mut [u8] as Write>::available
w_available(w) == w.cap - Len(w.out)

\* <&[u8] as Read>::available
r_available(r) == Len(r.data)

write_u8_off_by_one(w, value) ==
    IF w_available(w) <= 1
    THEN WErr("BufferToSmall", w)
    ELSE WOk(1, [w EXCEPT !.out = Append(@, value)])

\* <&mut [u8] as Write>::write_u8
write_u8(w, value) ==
    IF w_available(w) = 0
    THEN WErr("BufferToSmall", w)
    ELSE WOk(1, [w EXCEPT !.out = Append(@, value)])

\* n + b?
WAdd(n, b) == IF b.err # "Ok" THEN b ELSE WOk(n + b.n, b.w)

\* a? + f(writer)?     (left to right; the first error returns)
WPlus(a, F(_)) == IF a.err # "Ok" THEN a ELSE WAdd(a.n, F(a.w))

\* a?; f(writer)       (the count of a is dropped)
WSeq(a, F(_)) == IF a.err # "Ok" THEN a ELSE F(a.w)

RECURSIVE write_all_loop(_, _)
\* for b in bytes { self.write_u8(*b)?; }
\* (the loop over `bytes` is the loop over its first half, then, unless that
\* returned an error, the loop over its second half)
write_all_loop(w, bytes) ==
    IF bytes = <<>> THEN WOk(0, w)
    ELSE IF Len(bytes) = 1 THEN write_u8(w, bytes[1])
    ELSE LET h == Len(bytes) \div 2
         IN  WSeq(write_all_loop(w, Take(bytes, h)),
                  LAMBDA w2: write_all_loop(w2, Drop(bytes, h)))

write_all_without_precheck(w, bytes) ==
    WAdd(Len(bytes), WSeq(write_all_loop(w, bytes), LAMBDA w2: WOk(0, w2)))

\* Write::write_all
write_all(w, bytes) ==
    IF w_available(w) < Len(bytes)
    THEN WErr("BufferToSmall", w)
    ELSE WAdd(Len(bytes), WSeq(write_all_loop(w, bytes), LAMBDA w2: WOk(0, w2)))

\* <&[u8] as Read>::read_u8
read_u8(r) ==
    IF r.data = <<>>
    THEN RErr("UnexpectedEOF", r)
    ELSE ROk(Head(r.data), [r EXCEPT !.data = Tail(@)])

\* x?, then f(value, reader)
RBind(x, F(_, _)) == IF x.err # "Ok" THEN x ELSE F(x.val, x.r)

\* Variant(x?)
RMap(x, F(_)) == IF x.err # "Ok" THEN x ELSE ROk(F(x.val), x.r)

\* match reader.read_u8()? { ... } of the decoder of `family`
read_tag(r, family) ==
    RBind(read_u8(r), LAMBDA d, r2:
        ROk(d, [r2 EXCEPT !.tags = Append(@, <<family, d>>)]))

RECURSIVE read_all_loop(_, _)
\* for destination in destination.iter_mut().take(len) { *destination = self.read_u8()?; }
\* (halved like write_all_loop; the value is the bytes stored into `dest`)
read_all_loop(r, dest) ==
    IF dest = <<>> THEN ROk(<<>>, r)
    ELSE IF Len(dest) = 1 THEN RMap(read_u8(r), LAMBDA v: <<v>>)
    ELSE LET h == Len(dest) \div 2
         IN  RBind(read_all_loop(r, Take(dest, h)), LAMBDA a, r2:
                 RMap(read_all_loop(r2, Drop(dest, h)), LAMBDA b: a \o b))

\* Read::read_all: the value is <<count, destination afterwards>>
read_all(r, destination) ==
    LET len == Min(Len(destination), U8_MAX)
    IN  IF r_available(r) < len
        THEN RErr("UnexpectedEOF", r)
        ELSE RMap(read_all_loop(r, Take(destination, len)),
                  LAMBDA stored: <<len, stored \o Drop(destination, len)>>)

RECURSIVE read_array(_, _)
\* [reader.read_u8()?, reader.read_u8()?, ...] with n elements
read_array(r, n) ==
    IF n = 0 THEN ROk(<<>>, r)
    ELSE RBind(read_u8(r),
               LAMBDA v, r2: RMap(read_array(r2, n - 1), LAMBDA rest: <<v>> \o rest))

(***************************************************************************)
(* 4.C  Bus                                                                *)
(***************************************************************************)
Bus_write_wrong_opcode(w, bus) ==
    CASE bus.tag = "OneWire" -> write_u8(w, 0)
      [] bus.tag = "I2C"     -> write_u8(w, 1)
      [] bus.tag = "Custom"  -> WPlus(write_u8(w, 254), LAMBDA w2: write_u8(w2, bus.id))

Bus_write(w, bus) ==
    CASE bus.tag = "OneWire" -> write_u8(w, 0)
      [] bus.tag = "I2C"     -> write_u8(w, 1)
      [] bus.tag = "Custom"  -> WPlus(write_u8(w, 255), LAMBDA w2: write_u8(w2, bus.id))

Bus_read_fallthrough(r) ==
    RBind(read_tag(r, "Bus"), LAMBDA d, r2:
        CASE d = 1   -> ROk([tag |-> "I2C"], r2)
          [] d = 255 -> RMap(read_u8(r2), LAMBDA id: [tag |-> "Custom", id |-> id])
          [] OTHER   -> ROk([tag |-> "OneWire"], r2))

Bus_read(r) ==
    RBind(read_tag(r, "Bus"), LAMBDA d, r2:
        CASE d = 0   -> ROk([tag |-> "OneWire"], r2)
          [] d = 1   -> ROk([tag |-> "I2C"], r2)
          [] d = 255 -> RMap(read_u8(r2), LAMBDA id: [tag |-> "Custom", id |-> id])
          [] OTHER   -> RErr("UnknownTypeIdentifier", r2))

(***************************************************************************)
(* 4.B  Type                                                               *)
(***************************************************************************)
Type_write(w, t) ==
    CASE t.tag = "F32"        -> write_u8(w, 0)
      [] t.tag = "Bytes"      -> WPlus(write_u8(w, 1), LAMBDA w2: write_u8(w2, t.size))
      [] t.tag = "String"     -> WPlus(write_u8(w, 2), LAMBDA w2: write_u8(w2, t.size))
      [] t.tag = "PropertyId" -> write_u8(w, 3)
      [] t.tag = "DynString"  -> write_u8(w, 4)
      [] t.tag = "DynBytes"   -> write_u8(w, 5)
      [] t.tag = "DynListPropertyReportV1" -> write_u8(w, 192)
      [] t.tag = "U128" -> write_u8(w, 246)
      [] t.tag = "I128" -> write_u8(w, 247)
      [] t.tag = "U64"  -> write_u8(w, 248)
      [] t.tag = "I64"  -> write_u8(w, 249)
      [] t.tag = "U32"  -> write_u8(w, 250)
      [] t.tag = "I32"  -> write_u8(w, 251)
      [] t.tag = "U16"  -> write_u8(w, 252)
      [] t.tag = "I16"  -> write_u8(w, 253)
      [] t.tag = "U8"   -> write_u8(w, 254)
      [] t.tag = "I8"   -> write_u8(w, 255)

Type_read(r) ==
    RBind(read_tag(r, "Type"), LAMBDA d, r2:
        CASE d = 0   -> ROk([tag |-> "F32"], r2)
          [] d = 1   -> RMap(read_u8(r2), LAMBDA size: [tag |-> "Bytes", size |-> size])
          [] d = 2   -> RMap(read_u8(r2), LAMBDA size: [tag |-> "String", size |-> size])
          [] d = 3   -> ROk([tag |-> "PropertyId"], r2)
          [] d = 4   -> ROk([tag |-> "DynString"], r2)
          [] d = 5   -> ROk([tag |-> "DynBytes"], r2)
          [] d = 192 -> ROk([tag |-> "DynListPropertyReportV1"], r2)
          [] d = 246 -> ROk([tag |-> "U128"], r2)
          [] d = 247 -> ROk([tag |-> "I128"], r2)
          [] d = 248 -> ROk([tag |-> "U64"], r2)
          [] d = 249 -> ROk([tag |-> "I64"], r2)
          [] d = 250 -> ROk([tag |-> "U32"], r2)
          [] d = 251 -> ROk([tag |-> "I32"], r2)
          [] d = 252 -> ROk([tag |-> "U16"], r2)
          [] d = 253 -> ROk([tag |-> "I16"], r2)
          [] d = 254 -> ROk([tag |-> "U8"], r2)
          [] d = 255 -> ROk([tag |-> "I8"], r2)
          [] OTHER   -> RErr("UnknownTypeIdentifier", r2))

(***************************************************************************)
(* 4.C  Format                                                             *)
(***************************************************************************)
Format_write(w, f) ==
    CASE f.tag = "ValueOnly" ->
            WPlus(write_u8(w, 0), LAMBDA w2: Type_write(w2, f.t))
      [] f.tag = "AddressOnly" ->
            WPlus(write_u8(w, 1), LAMBDA w2: Type_write(w2, f.t))
      [] f.tag = "AddressValuePairs" ->
            WPlus(WPlus(write_u8(w, 2), LAMBDA w2: Type_write(w2, f.t1)),
                  LAMBDA w3: Type_write(w3, f.t2))
      [] f.tag = "Empty" -> write_u8(w, 255)

Format_read(r) ==
    RBind(read_tag(r, "Format"), LAMBDA d, r2:
        CASE d = 0 -> RMap(Type_read(r2), LAMBDA t: [tag |-> "ValueOnly", t |-> t])
          [] d = 1 -> RMap(Type_read(r2), LAMBDA t: [tag |-> "AddressOnly", t |-> t])
          [] d = 2 -> RBind(Type_read(r2), LAMBDA t1, r3:
                        RMap(Type_read(r3), LAMBDA t2:
                            [tag |-> "AddressValuePairs", t1 |-> t1, t2 |-> t2]))
          [] d = 255 -> ROk([tag |-> "Empty"], r2)
          [] OTHER -> RErr("UnknownTypeIdentifier", r2))

(***************************************************************************)
(* 4.C  Response                                                           *)
(***************************************************************************)
Response_write(w, resp) ==
    CASE resp.tag = "NotImplemented" ->
            WPlus(write_u8(w, 240), LAMBDA w2: write_u8(w2, resp.id))
      [] resp.tag = "NotAvailable" ->
            WPlus(write_u8(w, 241), LAMBDA w2: write_u8(w2, resp.id))
      [] resp.tag = "Ok" ->
            WPlus(WPlus(write_u8(w, 0), LAMBDA w2: write_u8(w2, resp.id)),
                  LAMBDA w3: Format_write(w3, resp.format))

Response_read(r) ==
    RBind(read_tag(r, "Response"), LAMBDA d, r2:
        CASE d = 240 -> RMap(read_u8(r2), LAMBDA id: [tag |-> "NotImplemented", id |-> id])
          [] d = 241 -> RMap(read_u8(r2), LAMBDA id: [tag |-> "NotAvailable", id |-> id])
          [] d = 0   -> RBind(read_u8(r2), LAMBDA id, r3:
                          RMap(Format_read(r3), LAMBDA f:
                              [tag |-> "Ok", id |-> id, format |-> f]))
          [] OTHER   -> RErr("UnknownTypeIdentifier", r2))

(***************************************************************************)
(* 4.C  Request                                                            *)
(***************************************************************************)
\* writer.write_u8(opcode)? + writer.write_u8(id)?
write_op_id(w, opcode, id) == WPlus(write_u8(w, opcode), LAMBDA w2: write_u8(w2, id))

Request_write(w, req) ==
    CASE req.tag = "ReadSpecified" ->
            WPlus(write_op_id(w, 0, req.id), LAMBDA w2: Bus_write(w2, req.bus))
      [] req.tag = "ReadAll" -> write_op_id(w, 1, req.id)
      [] req.tag = "ReadAllOnBus" ->
            WPlus(write_op_id(w, 2, req.id), LAMBDA w2: Bus_write(w2, req.bus))
      [] req.tag = "DiscoverAll" -> write_op_id(w, 16, req.id)
      [] req.tag = "DiscoverAllOnBus" ->
            WPlus(write_op_id(w, 17, req.id), LAMBDA w2: Bus_write(w2, req.bus))
      [] req.tag = "SetNetworkMac" ->
            WPlus(write_op_id(w, 160, req.id), LAMBDA w2: write_all(w2, req.mac))
      [] req.tag = "SetNetworkIpSubnetGateway" ->
            WPlus(WPlus(WPlus(write_op_id(w, 161, req.id),
                              LAMBDA w2: write_all(w2, req.ip)),
                        LAMBDA w3: write_all(w3, req.subnet)),
                  LAMBDA w4: write_all(w4, req.gateway))
      [] req.tag = "ListComponents" -> write_op_id(w, 208, req.id)
      [] req.tag = "ListComponentsWithReportV1" -> write_op_id(w, 209, req.id)
      [] req.tag = "RetrieveProperty" ->
            WPlus(write_op_id(w, 251, req.id), LAMBDA w2: write_u8(w2, req.len))
      [] req.tag = "RetrieveErrorDump" -> write_op_id(w, 252, req.id)
      [] req.tag = "RetrieveDeviceInformation" -> write_op_id(w, 253, req.id)
      [] req.tag = "RetrieveNetworkConfiguration" -> write_op_id(w, 254, req.id)
      [] req.tag = "RetrieveVersionInformation" -> write_op_id(w, 255, req.id)

\* Variant(reader.read_u8()?)
read_id_only(r, tag) == RMap(read_u8(r), LAMBDA id: [tag |-> tag, id |-> id])

\* Variant(reader.read_u8()?, Bus::read(reader)?)
read_id_bus(r, tag) ==
    RBind(read_u8(r), LAMBDA id, r2:
        RMap(Bus_read(r2), LAMBDA bus: [tag |-> tag, id |-> id, bus |-> bus]))

Request_read(r) ==
    RBind(read_tag(r, "Request"), LAMBDA d, r2:
        CASE d = 0   -> read_id_bus(r2, "ReadSpecified")
          [] d = 1   -> read_id_only(r2, "ReadAll")
          [] d = 2   -> read_id_bus(r2, "ReadAllOnBus")
          [] d = 16  -> read_id_only(r2, "DiscoverAll")
          [] d = 17  -> read_id_bus(r2, "DiscoverAllOnBus")
          [] d = 160 -> RBind(read_u8(r2), LAMBDA id, r3:
                          RMap(read_array(r3, 6), LAMBDA mac:
                              [tag |-> "SetNetworkMac", id |-> id, mac |-> mac]))
          [] d = 161 -> RBind(read_u8(r2), LAMBDA id, r3:
                          RBind(read_array(r3, 4), LAMBDA ip, r4:
                            RBind(read_array(r4, 4), LAMBDA subnet, r5:
                              RMap(read_array(r5, 4), LAMBDA gateway:
                                  [tag |-> "SetNetworkIpSubnetGateway", id |-> id,
                                   ip |-> ip, subnet |-> subnet, gateway |-> gateway]))))
          [] d = 208 -> read_id_only(r2, "ListComponents")
          [] d = 209 -> read_id_only(r2, "ListComponentsWithReportV1")
          [] d = 251 -> RBind(read_u8(r2), LAMBDA id, r3:
                          RMap(read_u8(r3), LAMBDA len:
                              [tag |-> "RetrieveProperty", id |-> id, len |-> len]))
          [] d = 252 -> read_id_only(r2, "RetrieveErrorDump")
          [] d = 253 -> read_id_only(r2, "RetrieveDeviceInformation")
          [] d = 254 -> read_id_only(r2, "RetrieveNetworkConfiguration")
          [] d = 255 -> read_id_only(r2, "RetrieveVersionInformation")
          [] OTHER   -> RErr("UnknownTypeIdentifier", r2))

(***************************************************************************)
(* 4.D  PropertyId, QueryComplexity, PropertyReportV1                      *)
(***************************************************************************)
\* PropertyId::from_slice
PropertyId_from_slice(slice) == [slice |-> slice]

\* PropertyId::write
PropertyId_write(w, pid) ==
    LET data == pid.slice
        len == Min(Len(data), U8_MAX)
    IN  WPlus(write_u8(w, len), LAMBDA w2: write_all(w2, Take(data, len)))

\* u16::to_be_bytes / u16::from_be_bytes
to_be_bytes(n) == <<n \div 256, n % 256>>
from_be_bytes(b) == b[1] * 256 + b[2]

\* NonZeroU16::new
NonZeroU16_new(n) == IF n = 0 THEN None ELSE Some(n)

\* estimated_millis.map(|n| n.get().to_be_bytes()).unwrap_or_default()
millis_bytes(estimated_millis) ==
    IF estimated_millis.some THEN to_be_bytes(estimated_millis.v) ELSE <<0, 0>>

QueryComplexity_write(w, c) ==
    CASE c.tag = "Unknown" -> write_u8(w, 0)
      [] c.tag = "Low" ->
            WSeq(write_u8(w, 16), LAMBDA w2: write_all(w2, millis_bytes(c.estimated_millis)))
      [] c.tag = "High" ->
            WSeq(write_u8(w, 32), LAMBDA w2: write_all(w2, millis_bytes(c.estimated_millis)))

\* let mut millis = 0u16.to_be_bytes(); reader.read_all(millis.as_mut())?; Variant { .. }
read_millis(r, tag) ==
    RMap(read_all(r, to_be_bytes(0)), LAMBDA res:
        [tag |-> tag, estimated_millis |-> NonZeroU16_new(from_be_bytes(res[2]))])

QueryComplexity_read(r) ==
    RBind(read_u8(r), LAMBDA d, r2:
        CASE d = 16 -> read_millis(r2, "Low")
          [] d = 32 -> read_millis(r2, "High")
          [] OTHER  -> RErr("UnknownTypeIdentifier", r2))

\* the feature header byte of PropertyReportV1::write_no_id
report_header(rep) ==
      (IF rep.type_hint.some THEN 128 ELSE 0)
    + (IF rep.description.some THEN 64 ELSE 0)
    + (IF rep.read THEN 32 ELSE 0)
    + (IF rep.write THEN 16 ELSE 0)

\* header & (1u8 << bit) != 0
bit_set(header, bit) == (header \div (2 ^ bit)) % 2 = 1

PropertyReportV1_write_no_id(w, rep) ==
    WPlus(WPlus(WPlus(write_u8(w, report_header(rep)),
                LAMBDA w2: IF rep.type_hint.some
                           THEN Type_write(w2, rep.type_hint.v)
                           ELSE WOk(0, w2)),
          LAMBDA w3: IF rep.description.some
                     THEN LET desc == rep.description.v
                              len == Min(Len(desc), U8_MAX)
                          IN  WPlus(write_u8(w3, len),
                                    LAMBDA w4: write_all(w4, Take(desc, len)))
                     ELSE WOk(0, w3)),
      LAMBDA w5: QueryComplexity_write(w5, rep.complexity))

PropertyReportV1_write(w, rep) ==
    LET id_len == Min(Len(rep.id), U8_MAX)
    IN  WPlus(WPlus(write_u8(w, id_len), LAMBDA w2: write_all(w2, Take(rep.id, id_len))),
              LAMBDA w3: PropertyReportV1_write_no_id(w3, rep))

\* String::from_utf8_lossy at byte i of b, for one- and two-byte sequences: an
\* ASCII byte and a lead byte with its continuation byte are kept, a continuation
\* byte is taken with its lead, any other byte becomes U+FFFD (EF BF BD)
lossy_piece(b, i) ==
    IF b[i] < 128 THEN <<b[i]>>
    ELSE IF b[i] \in 194..223 /\ i < Len(b) /\ b[i + 1] \in 128..191
         THEN <<b[i], b[i + 1]>>
    ELSE IF b[i] \in 128..191 /\ i > 1 /\ b[i - 1] \in 194..223 THEN <<>>
    ELSE <<239, 191, 189>>

RECURSIVE lossy_range(_, _, _)
\* the decoded bytes lo..hi of b, in order
lossy_range(b, lo, hi) ==
    IF lo > hi THEN <<>>
    ELSE IF lo = hi THEN lossy_piece(b, lo)
    ELSE LET mid == (lo + hi) \div 2
         IN  lossy_range(b, lo, mid) \o lossy_range(b, mid + 1, hi)

\* String::from_utf8_lossy(&vec).to_string()
from_utf8_lossy(b) == lossy_range(b, 1, Len(b))

\* let len = usize::from(reader.read_u8()?);
\* let mut vec = repeat(0u8).take(len).collect(); reader.read_all(&mut vec[..])?; vec
read_len_prefixed(r) ==
    RBind(read_u8(r), LAMBDA len, r2:
        RMap(read_all(r2, [i \in 1..len |-> 0]), LAMBDA res: res[2]))

PropertyReportV1_read(r) ==
    RBind(read_len_prefixed(r), LAMBDA id, r2:
      RBind(read_u8(r2), LAMBDA header, r3:
        RBind(IF bit_set(header, 7)
              THEN RMap(Type_read(r3), LAMBDA t: Some(t))
              ELSE ROk(None, r3), LAMBDA ty, r4:
          RBind(IF bit_set(header, 6)
                THEN RMap(read_len_prefixed(r4), LAMBDA vec: Some(from_utf8_lossy(vec)))
                ELSE ROk(None, r4), LAMBDA desc, r5:
            RMap(QueryComplexity_read(r5), LAMBDA complexity:
                [id |-> id, type_hint |-> ty, description |-> desc,
                 complexity |-> complexity,
                 read |-> bit_set(header, 5), write |-> bit_set(header, 4)])))))

PropertyReportV1_from_swapped_bits(property) ==
    [id |-> property.id, type_hint |-> property.type_hint,
     description |-> property.description, complexity |-> property.complexity,
     read |-> property.write.some, write |-> property.read.some]

\* impl From<&Property<P, T>> for PropertyReportV1
PropertyReportV1_from(property) ==
    [id |-> property.id, type_hint |-> property.type_hint,
     description |-> property.description, complexity |-> property.complexity,
     read |-> property.read.some, write |-> property.write.some]

(***************************************************************************)
(* Codec scenarios: a value of one codec family is written into a fixed    *)
(* slice and the produced bytes (plus a trailer) are read back; or raw     *)
(* bytes are handed to a decoder.                                          *)
(***************************************************************************)
MaxIdLen == 2
MaxRawLen == 4
AmpleCap == 600

\* all sequences over S of length at most n
SeqsUpTo(S, n) == UNION {[1..k -> S] : k \in 0..n}

ByteSample == {0, 1, 255}
RawBytes == {0, 1, 2, 7, 255}
IdBytes == {16, 64}

Buses == {[tag |-> "OneWire"], [tag |-> "I2C"]}
         \cup {[tag |-> "Custom", id |-> b] : b \in ByteSample}

PlainTypeTags ==
    {"F32", "PropertyId", "DynString", "DynBytes", "DynListPropertyReportV1",
     "U128", "I128", "U64", "I64", "U32", "I32", "U16", "I16", "U8", "I8"}

Types == {[tag |-> t] : t \in PlainTypeTags}
         \cup {[tag |-> t, size |-> b] : t \in {"Bytes", "String"}, b \in ByteSample}

Formats == {[tag |-> "Empty"]}
           \cup {[tag |-> f, t |-> t] : f \in {"ValueOnly", "AddressOnly"}, t \in Types}
           \cup {[tag |-> "AddressValuePairs", t1 |-> t1, t2 |-> t2] : t1 \in Types, t2 \in Types}

Responses == {[tag |-> t, id |-> b] : t \in {"NotImplemented", "NotAvailable"}, b \in ByteSample}
             \cup {[tag |-> "Ok", id |-> b, format |-> f] : b \in ByteSample, f \in Formats}

Macs == {<<1, 2, 3, 4, 5, 6>>, <<0, 0, 0, 0, 0, 0>>, <<255, 160, 0, 251, 1, 255>>}
Ips == {<<192, 168, 0, 1>>, <<255, 255, 255, 0>>, <<0, 0, 0, 0>>}

IdOnlyRequestTags ==
    {"ReadAll", "DiscoverAll", "ListComponents", "ListComponentsWithReportV1",
     "RetrieveErrorDump", "RetrieveDeviceInformation",
     "RetrieveNetworkConfiguration", "RetrieveVersionInformation"}

Requests ==
    {[tag |-> t, id |-> b] : t \in IdOnlyRequestTags, b \in ByteSample}
    \cup {[tag |-> t, id |-> b, bus |-> bus] :
            t \in {"ReadSpecified", "ReadAllOnBus", "DiscoverAllOnBus"},
            b \in ByteSample, bus \in Buses}
    \cup {[tag |-> "SetNetworkMac", id |-> b, mac |-> m] : b \in ByteSample, m \in Macs}
    \cup {[tag |-> "SetNetworkIpSubnetGateway", id |-> b, ip |-> i, subnet |-> sn, gateway |-> g] :
            b \in ByteSample, i \in Ips, sn \in Ips, g \in Ips}
    \cup {[tag |-> "RetrieveProperty", id |-> b, len |-> l] : b \in ByteSample, l \in ByteSample}

Millis == {1, 500}

QueryComplexities ==
    {[tag |-> "Unknown"]}
    \cup {[tag |-> t, estimated_millis |-> m] :
            t \in {"Low", "High"}, m \in {None} \cup {Some(n) : n \in Millis}}

\* n bytes, all equal to b
Repeat(b, n) == [i \in 1..n |-> b]

\* ids up to MaxIdLen bytes
ShortIds == SeqsUpTo(IdBytes, MaxIdLen)

\* ids at and beyond the reach of the one-byte length prefix
LongIds == {Repeat(48, U8_MAX), Repeat(48, U8_MAX + 1)}

PropertyIds == ShortIds \cup LongIds

\* UTF-8 strings: "" and "a\u{e9}"
ShortDescriptions == {<<>>, <<97, 195, 169>>}

\* UTF-8 strings: 255 x "a", and 254 x "a" followed by "\u{e9}" (256 bytes)
LongDescriptions == {Repeat(97, U8_MAX), Repeat(97, U8_MAX - 1) \o <<195, 169>>}

TypeHints == {None, Some([tag |-> "U32"]), Some([tag |-> "Bytes", size |-> 1])}

ReportsOf(ids, descs, hints, complexities) ==
    {[id |-> i, type_hint |-> t, description |-> d, complexity |-> c, read |-> rd, write |-> wr] :
        i \in ids, t \in hints, d \in {None} \cup {Some(x) : x \in descs},
        c \in complexities, rd \in BOOLEAN, wr \in BOOLEAN}

Reports(ids) ==
    ReportsOf(ids, ShortDescriptions, TypeHints, QueryComplexities)
    \cup ReportsOf(LongIds \cup {<<16>>}, LongDescriptions, {Some([tag |-> "U32"])},
                   {[tag |-> "High", estimated_millis |-> None]})

ValueInputs ==
    {[family |-> "Request", kind |-> "value", value |-> x] : x \in Requests}
    \cup {[family |-> "Response", kind |-> "value", value |-> x] : x \in Responses}
    \cup {[family |-> "Bus", kind |-> "value", value |-> x] : x \in Buses}
    \cup {[family |-> "Format", kind |-> "value", value |-> x] : x \in Formats}
    \cup {[family |-> "Type", kind |-> "value", value |-> x] : x \in Types}
    \cup {[family |-> "PropertyId", kind |-> "value", value |-> PropertyId_from_slice(x)] : x \in PropertyIds}
    \cup {[family |-> "QueryComplexity", kind |-> "value", value |-> x] : x \in QueryComplexities}
    \cup {[family |-> "PropertyReportV1", kind |-> "value", value |-> x] : x \in Reports(ShortIds)}
    \cup {[family |-> "PropertyReportV1NoId", kind |-> "value", value |-> x] : x \in Reports({<<16>>})}

FrameFamilies == {"Request", "Response", "Bus", "Format", "Type"}

RawInputs ==
    {[family |-> f, kind |-> "raw", bytes |-> b] :
        f \in FrameFamilies, b \in SeqsUpTo(RawBytes, MaxRawLen)}

NoWrite == [err |-> "None", n |-> 0, w |-> Writer(0)]
NoRead == [err |-> "None", val |-> <<>>, r |-> Reader(<<>>)]

\* the write operation of a family
CodecWrite(family, w, x) ==
    CASE family = "Request"  -> Request_write(w, x)
      [] family = "Response" -> Response_write(w, x)
      [] family = "Bus"      -> Bus_write(w, x)
      [] family = "Format"   -> Format_write(w, x)
      [] family = "Type"     -> Type_write(w, x)
      [] family = "PropertyId" -> PropertyId_write(w, x)
      [] family = "QueryComplexity" -> QueryComplexity_write(w, x)
      [] family = "PropertyReportV1" -> PropertyReportV1_write(w, x)
      [] family = "PropertyReportV1NoId" -> PropertyReportV1_write_no_id(w, x)

\* the families that have a read operation
ReadFamilies == FrameFamilies \cup {"QueryComplexity", "PropertyReportV1"}

\* the read operation of a family
CodecRead(family, r) ==
    CASE family = "Request"  -> Request_read(r)
      [] family = "Response" -> Response_read(r)
      [] family = "Bus"      -> Bus_read(r)
      [] family = "Format"   -> Format_read(r)
      [] family = "Type"     -> Type_read(r)
      [] family = "QueryComplexity" -> QueryComplexity_read(r)
      [] family = "PropertyReportV1" -> PropertyReportV1_read(r)

\* the number of bytes the encoding of the input value has
EncodedLen(in) == Len(CodecWrite(in.family, Writer(AmpleCap), in.value).w.out)

Trailers == {<<>>, <<255, 0>>}

CodecInit ==
    /\ pc = "start"
    /\ input \in ValueInputs \cup RawInputs
    /\ wres = NoWrite
    /\ rres = NoRead
    /\ wire = <<>>
    /\ calls = <<>>
    /\ NoDispatch

\* x.write(&mut &mut buf[..cap]) for a capacity one short of, equal to or beyond the encoding
Encode ==
    /\ pc = "start"
    /\ input.kind = "value"
    /\ \E cap \in {EncodedLen(input) - 1, EncodedLen(input), AmpleCap} :
          wres' = CodecWrite(input.family, Writer(cap), input.value)
    /\ pc' = "written"
    /\ UNCHANGED <<input, rres, wire, calls, send_counter, rx_buffer, events, result>>

\* X::read(&mut &bytes[..]) on the bytes a successful write produced, plus a trailer
Decode ==
    /\ pc = "written"
    /\ wres.err = "Ok"
    /\ input.family \in ReadFamilies
    /\ \E trailer \in Trailers :
          /\ wire' = wres.w.out \o trailer
          /\ rres' = CodecRead(input.family, Reader(wres.w.out \o trailer))
    /\ pc' = "read"
    /\ UNCHANGED <<input, wres, calls, send_counter, rx_buffer, events, result>>

\* X::read(&mut &bytes[..]) on arbitrary bytes
DecodeRaw ==
    /\ pc = "start"
    /\ input.kind = "raw"
    /\ wire' = input.bytes
    /\ rres' = CodecRead(input.family, Reader(input.bytes))
    /\ pc' = "read"
    /\ UNCHANGED <<input, wres, calls, send_counter, rx_buffer, events, result>>

CodecNext == Encode \/ Decode \/ DecodeRaw

Spec == CodecInit /\ [][CodecNext]_vars

\* the number of bytes the last read consumed
Consumed == Len(wire) - Len(rres.r.data)

(***************************************************************************)
(* Codec claims                                                            *)
(***************************************************************************)

\* C1: for every Request, Response, Bus, Format and Type value x, reading the
\* bytes x.write produced returns a value equal to x, and the byte count write
\* returned equals the number of bytes the read consumed (whatever follows
\* the encoding in the reader).
C1_FrameRoundTrip ==
    (pc = "read" /\ input.kind = "value" /\ input.family \in FrameFamilies)
    => /\ rres.err = "Ok"
       /\ rres.val = input.value
       /\ wres.n = Consumed

\* a SetNetworkIpSubnetGateway request written, then read back with bytes left over
C1_Witness ==
    /\ pc = "read"
    /\ input.kind = "value"
    /\ input.family = "Request"
    /\ input.value.tag = "SetNetworkIpSubnetGateway"
    /\ rres.err = "Ok"
    /\ rres.r.data # <<>>
    /\ Consumed = 14

\* C2: for every QueryComplexity value, QueryComplexity::read applied to the
\* bytes QueryComplexity::write produced returns the same value (Unknown, written
\* as the byte 0x00, included).
C2_QueryComplexityRoundTrip ==
    (pc = "read" /\ input.kind = "value" /\ input.family = "QueryComplexity")
    => /\ rres.err = "Ok"
       /\ rres.val = input.value

\* C3: every codec write operation returns, on success, exactly the number of
\* bytes it appended to the writer.
C3_WriteReturnsBytesAppended ==
    (pc = "written" /\ wres.err = "Ok") => wres.n = Len(wres.w.out)

\* C4: for every report whose id and description have at most 255 bytes,
\* PropertyReportV1::read of the bytes PropertyReportV1::write produced returns an
\* equal report and consumes exactly the bytes written.
C4_ReportRoundTrip ==
    (/\ pc = "read"
     /\ input.kind = "value"
     /\ input.family = "PropertyReportV1"
     /\ Len(input.value.id) <= U8_MAX
     /\ (input.value.description.some => Len(input.value.description.v) <= U8_MAX))
    => /\ rres.err = "Ok"
       /\ rres.val = input.value
       /\ Consumed = Len(wres.w.out)

\* the opcodes assigned to each family
AssignedOpcodes(family) ==
    CASE family = "Request"  -> (0..2) \cup {16, 17, 160, 161, 208, 209} \cup (251..255)
      [] family = "Response" -> {0, 240, 241}
      [] family = "Format"   -> (0..2) \cup {255}
      [] family = "Type"     -> (0..5) \cup {192} \cup (246..255)
      [] family = "Bus"      -> {0, 1, 255}

\* C5: a read of a Request, Response, Format, Type or Bus that reads, at the top
\* level or at any nested level, a discriminant byte that is not an assigned opcode
\* of the discriminant's family returns UnknownTypeIdentifier.
C5_UnknownDiscriminantRejected ==
    (/\ pc = "read"
     /\ input.family \in FrameFamilies
     /\ \E i \in 1..Len(rres.r.tags) :
            rres.r.tags[i][2] \notin AssignedOpcodes(rres.r.tags[i][1]))
    => rres.err = "UnknownTypeIdentifier"

\* a Response whose own and whose nested Format discriminant are assigned and
\* whose Type discriminant, two levels down, is not
C5_Witness ==
    /\ pc = "read"
    /\ input.family = "Response"
    /\ rres.r.tags = <<(<<"Response", 0>>), (<<"Format", 0>>), (<<"Type", 7>>)>>
    /\ rres.err = "UnknownTypeIdentifier"

\* C6: writing a value whose encoding has N bytes into a fixed slice of N-1 bytes
\* returns BufferToSmall; writing it into a slice of exactly N bytes succeeds and
\* leaves available() = 0.
C6_CapacityExact ==
    pc = "written"
    => /\ (wres.w.cap = EncodedLen(input) - 1) => wres.err = "BufferToSmall"
       /\ (wres.w.cap = EncodedLen(input))
            => (wres.err = "Ok" /\ w_available(wres.w) = 0)

\* a four-byte request written into a slice of three bytes: the slice is full
\* and the write returned BufferToSmall
C6_Witness ==
    /\ pc = "written"
    /\ input.family = "Request"
    /\ input.value.tag = "ReadSpecified"
    /\ input.value.bus.tag = "Custom"
    /\ wres.w.cap = EncodedLen(input) - 1
    /\ Len(wres.w.out) = 3
    /\ wres.err = "BufferToSmall"

(***************************************************************************)
(* 4.E  List / Retrieve handler (props/handling.rs)                        *)
(*                                                                         *)
(* A Property is [id, type_hint, description, complexity, read, write];    *)
(* read and write are Option<fn>.  A callback is code outside the crate:   *)
(* it is [name, value, fails], and calling it writes `value` through the   *)
(* writer it is given and returns the count, or, when `fails`, writes      *)
(* `value` and returns an error.  module_properties is                     *)
(* Option<(ModuleId, &[Property])>: None or Some([id, props]).             *)
(* A responder returns [err, n, w, calls]: the Result, the writer and the  *)
(* callbacks it invoked, each as [name, ctx] with ctx "t" or "m" for the   *)
(* context (target or module) it was handed.                               *)
(***************************************************************************)
ComponentRoot_Module == 64

\* the callback's result, r being the result of writing its value
callback_result(read_fn, r) ==
    IF r.err = "Ok" /\ read_fn.fails THEN WErr("UnexpectedEOF", r.w) ELSE r

\* read_fn(p, t, response_writer): the callback's own code
call_read_fn(read_fn, w) == callback_result(read_fn, write_all(w, read_fn.value))

\* ListComponentsResponder::opt_from
ListComponentsResponder_opt_from(request) ==
    IF request.tag \in {"ListComponents", "ListComponentsWithReportV1"}
    THEN Some([request_id |-> request.id,
               dyn_list_report_v1 |-> (request.tag = "ListComponentsWithReportV1")])
    ELSE None

\* RetrievePropertyResponder::opt_from
RetrievePropertyResponder_opt_from(request, payload) ==
    IF request.tag = "RetrieveProperty"
    THEN Some([request_id |-> request.id, prop_id_len |-> request.len, payload |-> payload])
    ELSE None

\* Response::Ok(self.request_id, if self.dyn_list_report_v1 { .. } else { .. })
list_header(self) ==
    [tag |-> "Ok", id |-> self.request_id,
     format |-> IF self.dyn_list_report_v1
                THEN [tag |-> "ValueOnly", t |-> [tag |-> "DynListPropertyReportV1"]]
                ELSE [tag |-> "AddressOnly", t |-> [tag |-> "PropertyId"]]]

\* the body of `for property in properties`
list_base_property(self, w, property) ==
    IF self.dyn_list_report_v1
    THEN PropertyReportV1_write(w, PropertyReportV1_from(property))
    ELSE PropertyId_write(w, PropertyId_from_slice(property.id))

module_property_id_no_prefix_len(w, module_id, property) ==
    LET prefix_len == ModulePrefixLen
        id_len == Min(Len(property.id), U8_MAX - prefix_len)
        len == id_len
    IN  WSeq(WSeq(write_u8(w, len),
                  LAMBDA w2: write_all(w2, <<ComponentRoot_Module, module_id.group,
                                             module_id.id, module_id.ext>>)),
             LAMBDA w3: write_all(w3, Take(property.id, id_len)))

\* the synthetic prefixed id of `for property in module_properties`
module_property_id(w, module_id, property) ==
    LET prefix_len == ModulePrefixLen
        id_len == Min(Len(property.id), U8_MAX - prefix_len)
        len == prefix_len + id_len
    IN  WSeq(WSeq(write_u8(w, len),
                  LAMBDA w2: write_all(w2, <<ComponentRoot_Module, module_id.group,
                                             module_id.id, module_id.ext>>)),
             LAMBDA w3: write_all(w3, Take(property.id, id_len)))

\* the body of `for property in module_properties`
list_module_property(self, w, module_id, property) ==
    WSeq(module_property_id(w, module_id, property),
         LAMBDA w2: IF self.dyn_list_report_v1
                    THEN PropertyReportV1_write_no_id(w2, PropertyReportV1_from(property))
                    ELSE WOk(0, w2))

RECURSIVE list_base_loop(_, _, _)
\* for property in properties { ..? }
list_base_loop(self, w, properties) ==
    IF properties = <<>> THEN WOk(0, w)
    ELSE WSeq(list_base_property(self, w, Head(properties)),
              LAMBDA w2: list_base_loop(self, w2, Tail(properties)))

RECURSIVE list_module_loop(_, _, _, _)
\* for property in module_properties { ..? }
list_module_loop(self, w, module_id, properties) ==
    IF properties = <<>> THEN WOk(0, w)
    ELSE WSeq(list_module_property(self, w, module_id, Head(properties)),
              LAMBDA w2: list_module_loop(self, w2, module_id, Tail(properties)))

\* Ok(available_before - response_writer.available()), or the error of a `?`
responder_result(available_before, r, called) ==
    IF r.err # "Ok"
    THEN [err |-> r.err, n |-> 0, w |-> r.w, calls |-> called]
    ELSE [err |-> "Ok", n |-> available_before - w_available(r.w), w |-> r.w,
          calls |-> called]

\* ListComponentsResponder::write
ListComponentsResponder_write(self, response_writer, properties, module_properties) ==
    responder_result(
        w_available(response_writer),
        WSeq(WSeq(Response_write(response_writer, list_header(self)),
                  LAMBDA w2: list_base_loop(self, w2, properties)),
             LAMBDA w3: IF module_properties.some
                        THEN list_module_loop(self, w3, module_properties.v.id,
                                              module_properties.v.props)
                        ELSE WOk(0, w3)),
        <<>>)

\* the index of the first property whose id equals `id`, 0 when there is none
\* (for property in props { if property.id == id { ..; break; } })
first_match(props, id) ==
    IF \E i \in 1..Len(props) : props[i].id = id
    THEN CHOOSE i \in 1..Len(props) :
            /\ props[i].id = id
            /\ \A j \in 1..(i - 1) : props[j].id # id
    ELSE 0

\* Response::Ok(self.request_id, Format::ValueOnly(property.type_hint.unwrap_or(Type::DynBytes)))
retrieve_header(self, property) ==
    [tag |-> "Ok", id |-> self.request_id,
     format |-> [tag |-> "ValueOnly",
                 t |-> IF property.type_hint.some THEN property.type_hint.v
                       ELSE [tag |-> "DynBytes"]]]

\* read_fn(p, t, response_writer)?, c being the callback's result
after_read_fn(property, ctx, c) ==
    [err |-> c.err, w |-> c.w, calls |-> <<[name |-> property.read.v.name, ctx |-> ctx]>>]

\* Response::Ok(..).write(response_writer)?; read_fn(..)?, h being the header's result
after_header(property, ctx, h) ==
    IF h.err # "Ok"
    THEN [err |-> h.err, w |-> h.w, calls |-> <<>>]
    ELSE after_read_fn(property, ctx, call_read_fn(property.read.v, h.w))

\* if property.id == id { if let Some(read_fn) = property.read.as_ref() { .. } break; },
\* i being the index of the first property with an equal id (0: none)
scan_hit(self, w, props, i, ctx) ==
    IF i = 0 \/ ~props[i].read.some
    THEN [err |-> "Ok", w |-> w, calls |-> <<>>]
    ELSE after_header(props[i], ctx, Response_write(w, retrieve_header(self, props[i])))

\* for property in props { if property.id == id { ..; break; } }
scan_table(self, w, props, id, ctx) ==
    scan_hit(self, w, props, first_match(props, id), ctx)

module_arm_any_module(pid_path, module_properties) ==
    /\ Len(pid_path) >= ModulePrefixLen
    /\ pid_path[1] = ComponentRoot_Module
    /\ module_properties.some

\* the guard of the first match arm: [component, module_group, module_id,
\* module_ext, prop_id @ ..] with the registered module's root and triple
module_arm(pid_path, module_properties) ==
    /\ Len(pid_path) >= ModulePrefixLen
    /\ pid_path[1] = ComponentRoot_Module
    /\ module_properties.some
    /\ pid_path[2] = module_properties.v.id.group
    /\ pid_path[3] = module_properties.v.id.id
    /\ pid_path[4] = module_properties.v.id.ext

\* match pid_path { [component, module_group, module_id, module_ext, prop_id @ ..]
\*     if .. => scan of the module table, _ => scan of the base table }
retrieve_match(self, w, properties, module_properties, pid_path) ==
    IF module_arm(pid_path, module_properties)
    THEN scan_table(self, w, module_properties.v.props,
                    Drop(pid_path, ModulePrefixLen), "m")
    ELSE scan_table(self, w, properties, pid_path, "t")

retrieve_finish_error_as_missing(self, available_before, m) ==
    responder_result(
        available_before,
        Response_write(m.w, [tag |-> "NotAvailable", id |-> self.request_id]),
        m.calls)

\* if available_before == response_writer.available() { NotAvailable(..).write(..)?; }
\* Ok(available_before - response_writer.available()); m is the result of the match
retrieve_finish(self, available_before, m) ==
    IF m.err # "Ok"
    THEN [err |-> m.err, n |-> 0, w |-> m.w, calls |-> m.calls]
    ELSE responder_result(
            available_before,
            IF available_before = w_available(m.w)
            THEN Response_write(m.w, [tag |-> "NotAvailable", id |-> self.request_id])
            ELSE WOk(0, m.w),
            m.calls)

\* the function from `let pid_path = &buffer[..len]` on; buffer is the result of
\* reading the path bytes
retrieve_with_buffer(self, w, properties, module_properties, buffer) ==
    IF buffer.err # "Ok"
    THEN [err |-> buffer.err, n |-> 0, w |-> w, calls |-> <<>>]
    ELSE retrieve_finish(self, w_available(w),
                         retrieve_match(self, w, properties, module_properties, buffer.val))

\* RetrievePropertyResponder::write
RetrievePropertyResponder_write(self, response_writer, properties, module_properties) ==
    retrieve_with_buffer(self, response_writer, properties, module_properties,
                         read_array(self.payload, Min(PID_PATH_MAX_DEPTH, self.prop_id_len)))

(***************************************************************************)
(* Handler scenarios: a parsed request is answered against a base table    *)
(* and an optional module table, into a fixed slice.                       *)
(***************************************************************************)
MaxProps == 2
MaxModuleProps == 1
SmallCap == 3

Callback(name, value, fails) == Some([name |-> name, value |-> value, fails |-> fails])

Property(id, type_hint, description, complexity, read, write) ==
    [id |-> id, type_hint |-> type_hint, description |-> description,
     complexity |-> complexity, read |-> read, write |-> write]

LowNone == [tag |-> "Low", estimated_millis |-> None]
High500 == [tag |-> "High", estimated_millis |-> Some(500)]

Id8 == <<16, 1, 2, 3, 4, 5, 6, 7>>

\* the base properties tables are drawn from, in table order
BasePool ==
    << Property(<<16, 0, 0>>, Some([tag |-> "U32"]), None, LowNone,
                Callback("cpu_id", <<222, 173, 190, 239>>, FALSE), None),
       Property(<<16, 0, 0>>, None, Some(<<97>>), High500,
                Callback("cpu_id_again", <<1>>, FALSE), None),
       Property(<<32, 1>>, Some([tag |-> "U8"]), Some(<<97, 195, 169>>), High500,
                None, Callback("set_flag", <<>>, FALSE)),
       Property(Id8, None, None, LowNone,
                Callback("depth8", <<8>>, FALSE), Callback("set_depth8", <<>>, FALSE)),
       Property(Id8 \o <<8>>, Some([tag |-> "Bytes", size |-> 1]), None, LowNone,
                Callback("depth9", <<9>>, FALSE), None),
       Property(<<64, 1, 2, 3, 5>>, None, None, LowNone,
                Callback("base_under_module", <<0>>, FALSE), None),
       Property(<<16, 2>>, Some([tag |-> "DynString"]), None, LowNone,
                Callback("broken", <<66>>, TRUE), None),
       Property(Repeat(48, U8_MAX + 1), None, None, LowNone,
                Callback("huge", <<>>, FALSE), None) >>

\* the module-local properties module tables are drawn from, in table order
ModulePool ==
    << Property(<<5>>, Some([tag |-> "F32"]), None, LowNone,
                Callback("m_short", <<63, 128, 0, 0>>, FALSE), None),
       Property(<<5, 6, 7, 8>>, None, None, LowNone,
                Callback("m_depth8", <<4>>, FALSE), None),
       Property(<<5, 6, 7, 8, 9>>, None, Some(<<109>>), High500,
                Callback("m_depth9", <<5>>, FALSE), None),
       Property(<<6>>, None, None, LowNone, None, Callback("m_set", <<>>, FALSE)),
       Property(Repeat(49, U8_MAX - ModulePrefixLen + 1), None, None, LowNone,
                Callback("m_huge", <<>>, FALSE), None) >>

TheModuleId == [group |-> 1, id |-> 2, ext |-> 3]

RECURSIVE Pick(_, _, _)
\* the entries of pool whose index is in S, from index i on, in pool order
Pick(pool, S, i) ==
    IF i > Len(pool) THEN <<>>
    ELSE (IF i \in S THEN <<pool[i]>> ELSE <<>>) \o Pick(pool, S, i + 1)

\* the tables of at most k entries of pool, in pool order
Tables(pool, k) ==
    {Pick(pool, S, 1) : S \in {T \in SUBSET (1..Len(pool)) : Cardinality(T) <= k}}

ModuleTables ==
    {None} \cup {Some([id |-> TheModuleId, props |-> t]) : t \in Tables(ModulePool, MaxModuleProps)}

\* the property id bytes a requester sends
RequestedPaths ==
    { <<>>, <<16, 0, 0>>, <<16, 0>>, <<16, 0, 0, 0>>, <<32, 1>>, <<16, 2>>,
      Id8, Id8 \o <<8>>, Id8 \o <<9>>,
      <<5>>, <<64, 1, 2, 3>>, <<64, 1, 2, 3, 5>>, <<64, 1, 2, 3, 6>>, <<64, 9, 9, 9, 5>>,
      <<64, 1, 2, 3, 5, 6, 7, 8>>, <<64, 1, 2, 3, 5, 6, 7, 8, 9>>,
      <<64, 1, 2, 3, 5, 6, 7, 8, 10>> }

RequestIds == {7, 241}

ListInputs ==
    {[kind |-> "list", request |-> [tag |-> t, id |-> rid], payload |-> <<>>,
      properties |-> props, module_properties |-> mod, cap |-> cap] :
        t \in {"ListComponents", "ListComponentsWithReportV1"}, rid \in RequestIds,
        props \in Tables(BasePool, MaxProps), mod \in ModuleTables,
        cap \in {AmpleCap + AmpleCap, SmallCap}}

\* the payload holds the declared id bytes, or one byte less
RetrieveInputs ==
    {[kind |-> "retrieve",
      request |-> [tag |-> "RetrieveProperty", id |-> 7, len |-> Len(path) + missing],
      payload |-> path, properties |-> props, module_properties |-> mod, cap |-> cap] :
        path \in RequestedPaths, missing \in {0, 1},
        props \in Tables(BasePool, MaxProps), mod \in ModuleTables,
        cap \in {AmpleCap, SmallCap}}

NoResult == [err |-> "None", n |-> 0, w |-> Writer(0)]

PropsInit ==
    /\ pc = "start"
    /\ input \in ListInputs \cup RetrieveInputs
    /\ wres = NoResult
    /\ rres = NoRead
    /\ wire = <<>>
    /\ calls = <<>>
    /\ NoDispatch

\* the responder's result becomes the state
Returned(res) ==
    /\ wres' = [err |-> res.err, n |-> res.n, w |-> res.w]
    /\ calls' = res.calls

\* ListComponentsResponder::opt_from(&request) and then write on the responder
ListComponents ==
    /\ pc = "start"
    /\ ListComponentsResponder_opt_from(input.request).some
    /\ Returned(ListComponentsResponder_write(
            ListComponentsResponder_opt_from(input.request).v,
            Writer(input.cap), input.properties, input.module_properties))
    /\ pc' = "done"
    /\ UNCHANGED <<input, rres, wire, send_counter, rx_buffer, events, result>>

\* RetrievePropertyResponder::opt_from(&request, payload) and then write on the responder
RetrieveProperty ==
    /\ pc = "start"
    /\ RetrievePropertyResponder_opt_from(input.request, Reader(input.payload)).some
    /\ Returned(RetrievePropertyResponder_write(
            RetrievePropertyResponder_opt_from(input.request, Reader(input.payload)).v,
            Writer(input.cap), input.properties, input.module_properties))
    /\ pc' = "done"
    /\ UNCHANGED <<input, rres, wire, send_counter, rx_buffer, events, result>>

PropsNext == ListComponents \/ RetrieveProperty

SpecProps == PropsInit /\ [][PropsNext]_vars

(***************************************************************************)
(* Handler claims                                                          *)
(***************************************************************************)
\* the bytes of a Response header
ResponseBytes(resp) == Response_write(Writer(AmpleCap), resp).w.out

\* a retrieve request was answered; its payload holds exactly the declared id bytes
\* and the writer had ample room
RetrieveAnswered ==
    /\ pc = "done"
    /\ input.kind = "retrieve"
    /\ input.request.len = Len(input.payload)
    /\ input.cap = AmpleCap

\* the id the requester asked for: all prop_id_len bytes
RequestedId == Take(input.payload, input.request.len)

\* the id under which ListComponents announces a module property
SyntheticId(module_id, property) ==
    <<ComponentRoot_Module, module_id.group, module_id.id, module_id.ext>> \o property.id

\* the properties of both tables whose (announced) id is the requested id
BaseMatches == {i \in 1..Len(input.properties) : input.properties[i].id = RequestedId}
ModuleMatches ==
    IF input.module_properties.some
    THEN {i \in 1..Len(input.module_properties.v.props) :
            SyntheticId(input.module_properties.v.id, input.module_properties.v.props[i])
                = RequestedId}
    ELSE {}

\* the Ok header the responder writes for a property
OkHeaderBytes(property) ==
    ResponseBytes([tag |-> "Ok", id |-> input.request.id,
                   format |-> [tag |-> "ValueOnly",
                               t |-> IF property.type_hint.some THEN property.type_hint.v
                                     ELSE [tag |-> "DynBytes"]]])

\* C7: RetrievePropertyResponder::write for an id present in the base table, whose
\* property has a read callback, invokes exactly that property's read callback
\* once and no other, after writing exactly the encoding of
\* Response::Ok(request_id, ValueOnly(type_hint or DynBytes)).
C7_BaseIdInvokesItsCallback ==
    (/\ RetrieveAnswered
     /\ \E i \in BaseMatches : input.properties[i].read.some)
    => \E i \in BaseMatches :
          /\ input.properties[i].read.some
          /\ calls = <<[name |-> input.properties[i].read.v.name, ctx |-> "t"]>>
          /\ wres.w.out = OkHeaderBytes(input.properties[i])
                            \o input.properties[i].read.v.value

\* C8: RetrievePropertyResponder::write for an id that is absent from both tables,
\* or that matches only properties without a read callback, writes exactly the two
\* bytes of Response::NotAvailable(request_id), invokes no callback and returns Ok(2).
C8_AbsentIdNotAvailable ==
    (/\ RetrieveAnswered
     /\ \A i \in BaseMatches : ~input.properties[i].read.some
     /\ \A i \in ModuleMatches : ~input.module_properties.v.props[i].read.some)
    => /\ wres.err = "Ok"
       /\ wres.n = 2
       /\ wres.w.out = <<241, input.request.id>>
       /\ calls = <<>>

\* the read callbacks of the properties whose (announced) id is the requested id
ExactMatchCallbacks ==
    {[name |-> input.properties[i].read.v.name, ctx |-> "t"] :
        i \in {j \in BaseMatches : input.properties[j].read.some}}
    \cup {[name |-> input.module_properties.v.props[i].read.v.name, ctx |-> "m"] :
        i \in {j \in ModuleMatches : input.module_properties.v.props[j].read.some}}

\* C9: RetrievePropertyResponder::write invokes a property's read callback only
\* when the requested id, all prop_id_len bytes of it, is byte-for-byte equal to
\* that property's id.
C9_ExactIdOnly ==
    (RetrieveAnswered /\ calls # <<>>)
    => \A k \in 1..Len(calls) : calls[k] \in ExactMatchCallbacks

RECURSIVE Concat(_)
\* the concatenation of a sequence of byte strings
Concat(parts) ==
    IF parts = <<>> THEN <<>> ELSE parts[1] \o Concat(Tail(parts))

\* the bytes a v0 listing is expected to consist of
ExpectedListV0 ==
    <<0, input.request.id, 1, 3>>
    \o Concat([i \in 1..Len(input.properties) |->
            <<Min(Len(input.properties[i].id), 255)>>
            \o Take(input.properties[i].id, Min(Len(input.properties[i].id), 255))])
    \o (IF input.module_properties.some
        THEN Concat([i \in 1..Len(input.module_properties.v.props) |->
                <<4 + Min(Len(input.module_properties.v.props[i].id), 251),
                  64, input.module_properties.v.id.group,
                  input.module_properties.v.id.id, input.module_properties.v.id.ext>>
                \o Take(input.module_properties.v.props[i].id,
                        Min(Len(input.module_properties.v.props[i].id), 251))])
        ELSE <<>>)

ComplexityBytes(c) ==
    IF c.tag = "Unknown" THEN <<0>>
    ELSE <<IF c.tag = "Low" THEN 16 ELSE 32>>
         \o (IF c.estimated_millis.some
             THEN <<c.estimated_millis.v \div 256, c.estimated_millis.v % 256>>
             ELSE <<0, 0>>)

\* the report of a property without its id: feature header, optional type,
\* optional length-prefixed description, complexity
ReportFieldBytes(property) ==
    << (IF property.type_hint.some THEN 128 ELSE 0)
       + (IF property.description.some THEN 64 ELSE 0)
       + (IF property.read.some THEN 32 ELSE 0)
       + (IF property.write.some THEN 16 ELSE 0) >>
    \o (IF property.type_hint.some
        THEN Type_write(Writer(AmpleCap), property.type_hint.v).w.out ELSE <<>>)
    \o (IF property.description.some
        THEN <<Min(Len(property.description.v), 255)>>
             \o Take(property.description.v, Min(Len(property.description.v), 255))
        ELSE <<>>)
    \o ComplexityBytes(property.complexity)

\* the bytes a v1 listing is expected to consist of
ExpectedListV1 ==
    <<0, input.request.id, 0, 192>>
    \o Concat([i \in 1..Len(input.properties) |->
            <<Min(Len(input.properties[i].id), 255)>>
            \o Take(input.properties[i].id, Min(Len(input.properties[i].id), 255))
            \o ReportFieldBytes(input.properties[i])])
    \o (IF input.module_properties.some
        THEN Concat([i \in 1..Len(input.module_properties.v.props) |->
                <<4 + Min(Len(input.module_properties.v.props[i].id), 251),
                  64, input.module_properties.v.id.group,
                  input.module_properties.v.id.id, input.module_properties.v.id.ext>>
                \o Take(input.module_properties.v.props[i].id,
                        Min(Len(input.module_properties.v.props[i].id), 251))
                \o ReportFieldBytes(input.module_properties.v.props[i])])
        ELSE <<>>)

\* C11: ListComponentsResponder::write in v1 mode writes the encoding of
\* Response::Ok(request_id, ValueOnly(DynListPropertyReportV1)), then per base
\* property a full PropertyReportV1 (id prefix, id, feature header, optional type,
\* optional description, complexity), then per module property the synthetic id
\* followed by the report fields without the id; the read/write bits of each
\* report are set iff the property has the corresponding callback.
C11_ListV1Bytes ==
    (pc = "done" /\ input.kind = "list"
     /\ input.request.tag = "ListComponentsWithReportV1")
    => /\ calls = <<>>
       /\ IF wres.err = "Ok"
          THEN wres.w.out = ExpectedListV1 /\ wres.n = Len(wres.w.out)
          ELSE /\ wres.err = "BufferToSmall"
               /\ Len(wres.w.out) < Len(ExpectedListV1)
               /\ wres.w.out = Take(ExpectedListV1, Len(wres.w.out))

\* a v1 listing was written in full for a base property that can be read but not
\* written and has a type hint, and for a module property with a description
C11_Witness ==
    /\ pc = "done" /\ input.kind = "list"
    /\ input.request.tag = "ListComponentsWithReportV1"
    /\ wres.err = "Ok"
    /\ \E i \in 1..Len(input.properties) :
            /\ input.properties[i].read.some /\ ~input.properties[i].write.some
            /\ input.properties[i].type_hint.some
    /\ input.module_properties.some
    /\ \E i \in 1..Len(input.module_properties.v.props) :
            input.module_properties.v.props[i].description.some

(***************************************************************************)
(* 4.F  Client dispatcher: client::Request::dispatch_async.                *)
(* Every `.await` is a pair of steps: the operation is started and the     *)
(* task is suspended, then the socket (or the timer) completes it.         *)
(***************************************************************************)
\* ConnectionOptions; the addresses are names, the timeout is the timer that may fire
ConnectionOptions(resend_attempts, rx_buffer_size) ==
    [remote |-> "remote", resend_attempts |-> resend_attempts,
     rx_buffer_size |-> rx_buffer_size]

\* ConnectionOptions::remote_address
remote_address(connection_options) == connection_options.remote

\* ConnectionOptions::new_onewire_read: the request and its serialized form, the
\* encoded request followed by the device addresses
new_onewire_read(connection_options, id, devices) ==
    [connection_options |-> connection_options,
     request |-> [tag |-> "ReadSpecified", id |-> id, bus |-> [tag |-> "OneWire"]],
     serialized |->
        Request_write(Writer(AmpleCap),
            [tag |-> "ReadSpecified", id |-> id, bus |-> [tag |-> "OneWire"]]).w.out
        \o devices]

\* DispatchError::Io { request, source }
DispatchError_Io(request, source) == [tag |-> "Io", request |-> request, source |-> source]
\* DispatchError::Timeout
DispatchError_Timeout == [tag |-> "Timeout"]
\* DispatchError::ProtocolError { request, source }
DispatchError_ProtocolError(request, source) ==
    [tag |-> "ProtocolError", request |-> request, source |-> source]

\* u8::saturating_add
saturating_add(a, b) == Min(a + b, U8_MAX)

skip_without_take(bytes, n, m) == SubSeq(bytes, n + 1, Len(bytes))

\* iter.skip(n).take(m).collect()
skip_take(bytes, n, m) == SubSeq(bytes, n + 1, Min(n + m, Len(bytes)))

\* socket.recv_from(&mut buffer): the length received; a datagram longer than the
\* buffer is cut to the buffer
recv_len(buf, datagram) == Min(Len(datagram), Len(buf))

\* socket.recv_from(&mut buffer): the buffer afterwards
recv_into(buf, datagram) ==
    Take(datagram, recv_len(buf, datagram)) \o Drop(buf, recv_len(buf, datagram))

dispatch_ok_zero_based(self, buf, len, payload_size, response, counter) ==
    [tag |-> "Ok", request |-> self.request, response |-> response,
     payload |-> skip_take(buf, len - payload_size, payload_size),
     requests_sent |-> counter]

\* Ok(Response { request, response, payload, requests_sent })
dispatch_ok(self, buf, len, payload_size, response, counter) ==
    [tag |-> "Ok", request |-> self.request, response |-> response,
     payload |-> skip_take(buf, len - payload_size, payload_size),
     requests_sent |-> saturating_add(counter, 1)]

dispatch_parsed_checks_id(self, buf, len, parsed, counter) ==
    IF parsed.err = "Ok" /\ parsed.val.id = self.request.id
    THEN dispatch_ok(self, buf, len, r_available(parsed.r), parsed.val, counter)
    ELSE DispatchError_ProtocolError(self, parsed.err)

\* the arm `if from == remote_address` once Response::read(&mut &buffer[..len]) returned
dispatch_parsed(self, buf, len, parsed, counter) ==
    IF parsed.err = "Ok"
    THEN dispatch_ok(self, buf, len, r_available(parsed.r), parsed.val, counter)
    ELSE DispatchError_ProtocolError(self, parsed.err)

\* a socket operation is started / is completed
Started(op) ==
    [op |-> op, phase |-> "start", attempt |-> send_counter, outcome |-> "pending",
     from |-> "-", reply_to |-> -1, datagram |-> <<>>]
Completed(op, outcome) ==
    [op |-> op, phase |-> "done", attempt |-> send_counter, outcome |-> outcome,
     from |-> "-", reply_to |-> -1, datagram |-> <<>>]
Received(from, reply_to, datagram) ==
    [op |-> "recv", phase |-> "done", attempt |-> send_counter, outcome |-> "datagram",
     from |-> from, reply_to |-> reply_to, datagram |-> datagram]

\* return value
Return(value) ==
    /\ result' = value
    /\ pc' = "returned"
    /\ UNCHANGED send_counter

next_attempt_one_more ==
    IF send_counter + 1 <= input.connection_options.resend_attempts
    THEN /\ send_counter' = send_counter + 1
         /\ pc' = "send"
         /\ UNCHANGED result
    ELSE Return(DispatchError_Timeout)

next_attempt_without_send ==
    IF send_counter + 1 < input.connection_options.resend_attempts
    THEN /\ send_counter' = send_counter + 1
         /\ pc' = "recv"
         /\ UNCHANGED result
    ELSE Return(DispatchError_Timeout)

next_attempt_hangs ==
    IF send_counter + 1 < input.connection_options.resend_attempts
    THEN /\ send_counter' = send_counter + 1
         /\ pc' = "send"
         /\ UNCHANGED result
    ELSE /\ pc' = "exhausted"
         /\ UNCHANGED <<send_counter, result>>

\* the end of the body of `for send_counter in 0..resend_attempts.get()`: the next
\* iteration, or the `Err(DispatchError::Timeout)` after the loop
next_attempt ==
    IF send_counter + 1 < input.connection_options.resend_attempts
    THEN /\ send_counter' = send_counter + 1
         /\ pc' = "send"
         /\ UNCHANGED result
    ELSE Return(DispatchError_Timeout)

from_any_source(self, from) == TRUE

\* from == self.connection_options.remote_address()
from_expected(self, from) == from = remote_address(self.connection_options)

send_failed_retries == next_attempt

\* socket.send_to(..) returned Err(source)
send_failed == Return(DispatchError_Io(input, "send"))

(***************************************************************************)
(* Dispatch scenarios: the socket and the timer decide how every           *)
(* operation completes.                                                    *)
(***************************************************************************)
MaxAttempts == 3

\* the sizes of the receive buffer
RxBufferSizes == {3, 8}

\* the request that is dispatched: id 7, one device address
DispatchInputs ==
    {new_onewire_read(ConnectionOptions(n, size), 7, <<40, 255, 1, 2, 3, 4, 5, 6>>) :
        n \in 1..MaxAttempts, size \in RxBufferSizes}

\* datagrams the expected remote may send: NotAvailable(7); Ok(9, ValueOnly(DynBytes))
\* with two payload bytes; Ok(7, ValueOnly(Bytes(4))) with four payload bytes; an
\* unassigned opcode; an empty datagram
RemoteDatagrams ==
    { <<241, 7>>, <<0, 9, 0, 5, 1, 2>>, <<0, 7, 0, 1, 4, 10, 11, 12, 13>>, <<99>>, <<>> }

\* datagrams other hosts may send
ForeignDatagrams == { <<241, 7>>, <<0, 7, 0, 5, 21, 22, 23, 24, 25>>, <<99>> }

\* the state at the call of dispatch_async, after `let mut buffer = vec![0u8; ..]`
DispatchInit ==
    /\ pc = "bind"
    /\ input \in DispatchInputs
    /\ wres = NoWrite
    /\ rres = NoRead
    /\ wire = <<>>
    /\ calls = <<>>
    /\ send_counter = 0
    /\ rx_buffer = [i \in 1..input.connection_options.rx_buffer_size |-> 0]
    /\ events = <<>>
    /\ result = [tag |-> "Pending"]

\* UdpSocket::bind(local_address) is started
BindStart ==
    /\ pc = "bind"
    /\ events' = Append(events, Started("bind"))
    /\ pc' = "binding"
    /\ UNCHANGED <<input, wres, rres, wire, calls, send_counter, rx_buffer, result>>

\* bind returned Ok(socket): the loop is entered (resend_attempts is not zero)
BindOk ==
    /\ pc = "binding"
    /\ events' = Append(events, Completed("bind", "ok"))
    /\ pc' = "send"
    /\ UNCHANGED <<input, wres, rres, wire, calls, send_counter, rx_buffer, result>>

\* bind returned Err(source)
BindErr ==
    /\ pc = "binding"
    /\ events' = Append(events, Completed("bind", "err"))
    /\ Return(DispatchError_Io(input, "bind"))
    /\ UNCHANGED <<input, wres, rres, wire, calls, rx_buffer>>

\* socket.send_to(&self.serialized[..], remote_address) is started
SendStart ==
    /\ pc = "send"
    /\ events' = Append(events,
            [Started("send") EXCEPT !.datagram = input.serialized])
    /\ pc' = "sending"
    /\ UNCHANGED <<input, wres, rres, wire, calls, send_counter, rx_buffer, result>>

\* send_to returned Ok: timeout(.., socket.recv_from(&mut buffer)) is next
SendOk ==
    /\ pc = "sending"
    /\ events' = Append(events, Completed("send", "ok"))
    /\ pc' = "recv"
    /\ UNCHANGED <<input, wres, rres, wire, calls, send_counter, rx_buffer, result>>

\* send_to returned Err(source)
SendErr ==
    /\ pc = "sending"
    /\ events' = Append(events, Completed("send", "err"))
    /\ send_failed
    /\ UNCHANGED <<input, wres, rres, wire, calls, rx_buffer>>

\* timeout(self.connection_options.timeout, socket.recv_from(&mut buffer)) is started
RecvStart ==
    /\ pc = "recv"
    /\ events' = Append(events, Started("recv"))
    /\ pc' = "receiving"
    /\ UNCHANGED <<input, wres, rres, wire, calls, send_counter, rx_buffer, result>>

\* Err(_): the timer fired first
RecvTimeout ==
    /\ pc = "receiving"
    /\ events' = Append(events, Completed("recv", "timeout"))
    /\ next_attempt
    /\ UNCHANGED <<input, wres, rres, wire, calls, rx_buffer>>

\* Ok(Err(source))
RecvErr ==
    /\ pc = "receiving"
    /\ events' = Append(events, Completed("recv", "err"))
    /\ Return(DispatchError_Io(input, "recv"))
    /\ UNCHANGED <<input, wres, rres, wire, calls, rx_buffer>>

\* Ok(Ok((len, from))) with a datagram of the expected remote, sent in reply to
\* any of the sends made so far
RecvFromRemote ==
    /\ pc = "receiving"
    /\ \E datagram \in RemoteDatagrams, reply_to \in 0..send_counter :
          /\ events' = Append(events, Received("remote", reply_to, datagram))
          /\ rx_buffer' = recv_into(rx_buffer, datagram)
          /\ IF from_expected(input, "remote")
             THEN Return(dispatch_parsed(input, recv_into(rx_buffer, datagram),
                            recv_len(rx_buffer, datagram),
                            Response_read(Reader(Take(recv_into(rx_buffer, datagram),
                                                      recv_len(rx_buffer, datagram)))),
                            send_counter))
             ELSE next_attempt
    /\ UNCHANGED <<input, wres, rres, wire, calls>>

\* Ok(Ok((len, from))) with a datagram of another host
RecvFromOther ==
    /\ pc = "receiving"
    /\ \E datagram \in ForeignDatagrams :
          /\ events' = Append(events, Received("other", -1, datagram))
          /\ rx_buffer' = recv_into(rx_buffer, datagram)
          /\ IF from_expected(input, "other")
             THEN Return(dispatch_parsed(input, recv_into(rx_buffer, datagram),
                            recv_len(rx_buffer, datagram),
                            Response_read(Reader(Take(recv_into(rx_buffer, datagram),
                                                      recv_len(rx_buffer, datagram)))),
                            send_counter))
             ELSE next_attempt
    /\ UNCHANGED <<input, wres, rres, wire, calls>>

DispatchNext ==
    \/ BindStart \/ BindOk \/ BindErr
    \/ SendStart \/ SendOk \/ SendErr
    \/ RecvStart \/ RecvTimeout \/ RecvErr \/ RecvFromRemote \/ RecvFromOther

SpecDispatch == DispatchInit /\ [][DispatchNext]_vars

(***************************************************************************)
(* Dispatcher claims                                                       *)
(***************************************************************************)
\* the socket operations of one kind that were started / that completed so far
StartsOf(op) == {i \in 1..Len(events) : events[i].op = op /\ events[i].phase = "start"}
CompletionsOf(op) == {i \in 1..Len(events) : events[i].op = op /\ events[i].phase = "done"}

\* resend_attempts of the dispatch
Attempts == input.connection_options.resend_attempts

\* bind and every send so far succeeded and every timed receive so far timed out
OnlyTimeouts ==
    \A i \in 1..Len(events) :
        events[i].phase = "done"
        => events[i].outcome = (IF events[i].op = "recv" THEN "timeout" ELSE "ok")

\* C12: in Request::dispatch_async with resend_attempts = N, if every timed receive
\* times out (and bind and every send succeed), the result is
\* DispatchError::Timeout and exactly N send operations were performed.
C12_TimeoutAfterNSends ==
    OnlyTimeouts
    => /\ Cardinality(StartsOf("send")) <= Attempts
       /\ pc = "returned"
          => /\ result = DispatchError_Timeout
             /\ Cardinality(StartsOf("send")) = Attempts
             /\ Cardinality(CompletionsOf("send")) = Attempts
             /\ Cardinality(CompletionsOf("recv")) = Attempts

\* a dispatch with the largest number of attempts returned after timeouts only
C12_Witness ==
    /\ pc = "returned"
    /\ OnlyTimeouts
    /\ Attempts = MaxAttempts
    /\ result = DispatchError_Timeout

\* the last socket operation that completed
LastEvent == events[Len(events)]

\* C13: when Request::dispatch_async returns Ok, requests_sent equals
\* attempt_index + 1 for the 0-based attempt in which the datagram of the remote
\* was received; it equals the number of sends performed so far and lies in
\* 1..=resend_attempts.
C13_RequestsSent ==
    result.tag = "Ok"
    => /\ LastEvent.op = "recv" /\ LastEvent.outcome = "datagram"
       /\ LastEvent.from = remote_address(input.connection_options)
       /\ result.requests_sent = LastEvent.attempt + 1
       /\ result.requests_sent = Cardinality(StartsOf("send"))
       /\ result.requests_sent \in 1..Attempts

\* Ok was returned in the last of several attempts
C13_Witness ==
    /\ result.tag = "Ok"
    /\ Attempts > 1
    /\ LastEvent.attempt = Attempts - 1
    /\ result.requests_sent = Attempts

\* the i-th socket operation is the receipt of a datagram from / not from remote_address
ForeignAt(i) ==
    /\ events[i].op = "recv" /\ events[i].outcome = "datagram"
    /\ events[i].from # remote_address(input.connection_options)
RemoteAt(i) ==
    /\ events[i].op = "recv" /\ events[i].outcome = "datagram"
    /\ events[i].from = remote_address(input.connection_options)

\* the part of a datagram that fits the receive buffer, and its Response header
ReceivedBytes(datagram) ==
    Take(datagram, Min(Len(datagram), input.connection_options.rx_buffer_size))
ParsedHeader(datagram) == Response_read(Reader(ReceivedBytes(datagram)))

\* C14: a datagram received from an address different from remote_address is never
\* returned as the result and never produces an error; it consumes the current
\* attempt: the dispatcher does not receive again in that attempt but proceeds to
\* the next attempt with a new send if attempts remain (otherwise the attempts are
\* exhausted), and a reply of remote_address in a later attempt is still returned.
C14_WrongSourceConsumesAttempt ==
    /\ \A i \in 1..Len(events) :
          ForeignAt(i)
          => IF i < Len(events)
             THEN /\ events[i + 1].op = "send" /\ events[i + 1].phase = "start"
                  /\ events[i + 1].attempt = events[i].attempt + 1
             ELSE IF events[i].attempt + 1 < Attempts
                  THEN /\ result.tag = "Pending" /\ pc = "send"
                       /\ send_counter = events[i].attempt + 1
                  ELSE result = DispatchError_Timeout /\ pc = "returned"
    /\ result.tag = "Ok"
       => /\ RemoteAt(Len(events))
          /\ result.response = ParsedHeader(LastEvent.datagram).val
    /\ (events # <<>> /\ RemoteAt(Len(events))
            /\ ParsedHeader(LastEvent.datagram).err = "Ok")
       => result.tag = "Ok"

\* a datagram of another host that parses as a Response consumed the first attempt
\* and the reply of the remote was returned in a later one
C14_Witness ==
    /\ result.tag = "Ok"
    /\ \E i \in 1..Len(events) :
          /\ ForeignAt(i) /\ events[i].attempt = 0
          /\ ParsedHeader(events[i].datagram).err = "Ok"
    /\ LastEvent.attempt > 0

\* the number of bytes the header of a Response occupies
HeaderLen(response) == Len(ResponseBytes(response))

\* C15: when Request::dispatch_async returns Ok for a received datagram of length
\* len whose Response header occupies h bytes, the payload is exactly the bytes
\* h..len of the receive buffer, which are the datagram's bytes after the header:
\* its length is len - h, it holds no header byte and no buffer byte beyond the
\* datagram.
C15_PayloadIsDatagramRest ==
    result.tag = "Ok"
    => /\ result.payload
            = SubSeq(rx_buffer, HeaderLen(result.response) + 1,
                     Len(ReceivedBytes(LastEvent.datagram)))
       /\ result.payload
            = SubSeq(LastEvent.datagram, HeaderLen(result.response) + 1,
                     Len(ReceivedBytes(LastEvent.datagram)))
       /\ Len(result.payload)
            = Len(ReceivedBytes(LastEvent.datagram)) - HeaderLen(result.response)

\* Ok was returned with a payload while the receive buffer still held bytes of an
\* earlier, longer datagram behind the received one
C15_Witness ==
    /\ result.tag = "Ok"
    /\ result.payload # <<>>
    /\ Len(LastEvent.datagram) < Len(rx_buffer)
    /\ rx_buffer[Len(LastEvent.datagram) + 1] # 0

\* the i-th socket operation failed: bind, send or receive returned an error, or a
\* datagram of remote_address does not parse as a Response
FailureAt(i) ==
    /\ events[i].phase = "done"
    /\ \/ events[i].outcome = "err"
       \/ RemoteAt(i) /\ ParsedHeader(events[i].datagram).err # "Ok"

\* C16: every failure other than a timeout or a wrong-source datagram is fatal: a
\* bind failure returns Io before any send, a send failure or a receive error
\* returns Io, a datagram of remote_address that fails Response::read returns
\* ProtocolError; no further send or receive is performed even when attempts
\* remain, and the error carries the original request.
C16_FailuresAreFatal ==
    /\ \A i \in 1..Len(events) :
          FailureAt(i)
          => /\ i = Len(events)
             /\ pc = "returned"
             /\ result.tag = (IF events[i].outcome = "err" THEN "Io" ELSE "ProtocolError")
             /\ result.request = input
             /\ result.source = (IF events[i].outcome = "err" THEN events[i].op
                                 ELSE ParsedHeader(events[i].datagram).err)
             /\ events[i].op = "bind" => StartsOf("send") = {} /\ StartsOf("recv") = {}
    /\ result.tag \in {"Io", "ProtocolError"}
       => events # <<>> /\ FailureAt(Len(events))

\* a datagram of the remote that does not parse ended the dispatch with
\* ProtocolError while attempts remained
C16_Witness ==
    /\ result.tag = "ProtocolError"
    /\ pc = "returned"
    /\ LastEvent.attempt + 1 < Attempts
    /\ result.request = input

\* the socket operations started so far and not yet completed
Outstanding ==
    Cardinality({i \in 1..Len(events) : events[i].phase = "start"})
    - Cardinality({i \in 1..Len(events) : events[i].phase = "done"})

\* C17: within one Request::dispatch_async sends and timed receives strictly
\* alternate: after the bind, the k-th send is started and completed, then the
\* k-th receive is started and completed (datagram or timeout), and only then the
\* (k+1)-th send is started; there is never more than one outstanding operation.
C17_SendsAndReceivesAlternate ==
    /\ Outstanding \in {0, 1}
    /\ \A i \in 1..Len(events) :
          /\ events[i].phase = (IF i % 2 = 1 THEN "start" ELSE "done")
          /\ IF i <= 2
             THEN events[i].op = "bind"
             ELSE /\ events[i].op = (IF (i - 3) % 4 < 2 THEN "send" ELSE "recv")
                  /\ events[i].attempt = (i - 3) \div 4

\* the send of the second attempt was started after the first receive completed,
\* and the second receive has completed
C17_Witness ==
    /\ Len(events) >= 10
    /\ events[6].op = "recv" /\ events[6].phase = "done"
    /\ events[7].op = "send" /\ events[7].phase = "start" /\ events[7].attempt = 1
    /\ events[10].op = "recv" /\ events[10].phase = "done"

\* C18: Request::dispatch_async returns the first datagram that comes from
\* remote_address and parses as a Response, whichever attempt's send elicited it
\* and whether or not the response's id equals the request's id; a response with a
\* mismatching id is returned as Ok, never discarded or retried.
C18_FirstParseableReplyReturned ==
    /\ \A i \in 1..Len(events) :
          (RemoteAt(i) /\ ParsedHeader(events[i].datagram).err = "Ok")
          => /\ i = Len(events)
             /\ pc = "returned"
             /\ result.tag = "Ok"
             /\ result.response = ParsedHeader(events[i].datagram).val
             /\ result.request = input.request
    /\ result.tag = "Ok"
       => /\ RemoteAt(Len(events))
          /\ \A i \in 1..(Len(events) - 1) : ~RemoteAt(i)

\* a reply to the first send, carrying an id other than the request's, was received
\* in a later attempt and returned as Ok
C18_Witness ==
    /\ result.tag = "Ok"
    /\ result.response.id # input.request.id
    /\ LastEvent.attempt > 0
    /\ LastEvent.reply_to = 0

(***************************************************************************)
(* Slice scenarios: read_all and write_all are called on fixed slices.     *)
(***************************************************************************)
MaxIoLen == 3

\* lengths around the u8::MAX clip of read_all
ClipLens == {U8_MAX - 1, U8_MAX, U8_MAX + 1}

\* read_all(&mut dst) on a reader: short inputs of every shape, long ones around the clip
ReadAllInputs ==
    {[kind |-> "read_all", data |-> data, dst_len |-> n] :
        data \in SeqsUpTo({1, 2}, MaxIoLen), n \in 0..(MaxIoLen + 1)}
    \cup {[kind |-> "read_all", data |-> Repeat(3, m), dst_len |-> n] :
        m \in ClipLens, n \in ClipLens \cup {MaxIoLen}}

\* write_all(bytes) on a slice of which `written` bytes are already filled
WriteAllInputs ==
    {[kind |-> "write_all", bytes |-> bytes, cap |-> cap, written |-> written] :
        bytes \in SeqsUpTo({1, 2}, MaxIoLen), cap \in 0..(MaxIoLen + 1),
        written \in {<<>>, <<9>>}}
    \cup {[kind |-> "write_all", bytes |-> Repeat(3, m), cap |-> cap, written |-> <<>>] :
        m \in ClipLens, cap \in ClipLens}

\* the writer over the rest of a slice of `cap` bytes after `written` was written
WriterAfter(cap, written) == [Writer(cap + Len(written)) EXCEPT !.out = written]

SliceInit ==
    /\ pc = "start"
    /\ input \in ReadAllInputs \cup WriteAllInputs
    /\ wres = NoWrite
    /\ rres = NoRead
    /\ wire = <<>>
    /\ calls = <<>>
    /\ NoDispatch

\* reader.read_all(&mut dst) with dst zeroed
ReadAll ==
    /\ pc = "start"
    /\ input.kind = "read_all"
    /\ wire' = input.data
    /\ rres' = read_all(Reader(input.data), Repeat(0, input.dst_len))
    /\ pc' = "done"
    /\ UNCHANGED <<input, wres, calls, send_counter, rx_buffer, events, result>>

\* writer.write_all(bytes)
WriteAll ==
    /\ pc = "start"
    /\ input.kind = "write_all"
    /\ wres' = write_all(WriterAfter(input.cap, input.written), input.bytes)
    /\ pc' = "done"
    /\ UNCHANGED <<input, rres, wire, calls, send_counter, rx_buffer, events, result>>

SliceNext == ReadAll \/ WriteAll

SpecSlices == SliceInit /\ [][SliceNext]_vars

\* C19: Read::read_all and Write::write_all on fixed slices are all-or-nothing:
\* read_all(dst) with fewer than min(len(dst), 255) bytes available returns
\* UnexpectedEOF without consuming a byte, write_all(bytes) with fewer than
\* len(bytes) bytes of capacity returns BufferToSmall without writing a byte;
\* otherwise they consume / write exactly that many bytes and return that count.
C19_AllOrNothing ==
    /\ (pc = "done" /\ input.kind = "read_all")
       => IF Len(input.data) < Min(input.dst_len, 255)
          THEN rres.err = "UnexpectedEOF" /\ rres.r.data = input.data
          ELSE /\ rres.err = "Ok"
               /\ rres.val[1] = Min(input.dst_len, 255)
               /\ rres.r.data
                    = SubSeq(input.data, Min(input.dst_len, 255) + 1, Len(input.data))
               /\ rres.val[2]
                    = SubSeq(input.data, 1, Min(input.dst_len, 255))
                      \o Repeat(0, input.dst_len - Min(input.dst_len, 255))
    /\ (pc = "done" /\ input.kind = "write_all")
       => IF input.cap < Len(input.bytes)
          THEN wres.err = "BufferToSmall" /\ wres.w.out = input.written
          ELSE /\ wres.err = "Ok"
               /\ wres.n = Len(input.bytes)
               /\ wres.w.out = input.written \o input.bytes

\* write_all was refused on a slice that had room for a part of the bytes, and
\* read_all was refused on a reader that held a part of the bytes
C19_Witness ==
    /\ pc = "done"
    /\ \/ /\ input.kind = "write_all"
          /\ 0 < input.cap /\ input.cap < Len(input.bytes)
          /\ wres.err = "BufferToSmall"
       \/ /\ input.kind = "read_all"
          /\ 0 < Len(input.data) /\ Len(input.data) < input.dst_len
          /\ rres.err = "UnexpectedEOF"

(***************************************************************************)
(* Routing claim (checked under SpecProps)                                 *)
(***************************************************************************)
\* the requested path as the responder sees it: at most 8 bytes of it
ClippedPath == SubSeq(input.payload, 1, Min(input.request.len, 8))

\* the path names the registered module
RoutedToModule ==
    /\ input.module_properties.some
    /\ Len(ClippedPath) >= 4
    /\ SubSeq(ClippedPath, 1, 4)
         = <<64, input.module_properties.v.id.group, input.module_properties.v.id.id,
             input.module_properties.v.id.ext>>

\* the table, the key and the context the routing selects
RoutedTable ==
    IF RoutedToModule THEN input.module_properties.v.props ELSE input.properties
RoutedKey ==
    IF RoutedToModule THEN SubSeq(ClippedPath, 5, Len(ClippedPath)) ELSE ClippedPath
RoutedContext == IF RoutedToModule THEN "m" ELSE "t"

\* the indices of the selected table whose id is the key
RoutedHits == {i \in 1..Len(RoutedTable) : RoutedTable[i].id = RoutedKey}

\* the first property of the selected table whose id is the key
RoutedProperty ==
    RoutedTable[CHOOSE i \in RoutedHits : \A j \in RoutedHits : i <= j]

\* C20: RetrievePropertyResponder::write routes by path: when the clipped path has
\* at least 4 bytes, starts with 0x40 and its next three bytes equal the registered
\* module's (group, id, ext), only the module table is scanned, comparing the
\* remaining suffix with each module property's local id, and the matched callback
\* gets the module context; in every other case only the base table is scanned
\* with the whole path.
C20_RoutesByPath ==
    (/\ pc = "done" /\ input.kind = "retrieve"
     /\ Len(input.payload) >= Min(input.request.len, 8)
     /\ input.cap = AmpleCap)
    => IF RoutedHits # {} /\ RoutedProperty.read.some
       THEN /\ calls = <<[name |-> RoutedProperty.read.v.name, ctx |-> RoutedContext]>>
            /\ wres.w.out = OkHeaderBytes(RoutedProperty) \o RoutedProperty.read.v.value
       ELSE /\ calls = <<>>
            /\ wres.w.out = <<241, input.request.id>>

\* a path under the registered module was answered by a module property in the
\* module context although the base table holds a property with that whole path
C20_Witness ==
    /\ pc = "done" /\ input.kind = "retrieve"
    /\ input.cap = AmpleCap
    /\ Len(input.payload) = input.request.len
    /\ RoutedToModule
    /\ \E i \in 1..Len(input.properties) : input.properties[i].id = input.payload
    /\ Len(calls) = 1 /\ calls[1].ctx = "m"
    /\ wres.err = "Ok"

(***************************************************************************)
(* List / retrieve consistency (checked under SpecProps)                   *)
(***************************************************************************)
\* the id ListComponentsResponder::write emits for a base property and for a
\* property of the registered module
ListedBaseId(property) == SubSeq(property.id, 1, Min(Len(property.id), 255))
ListedModuleId(module_id, property) ==
    <<64, module_id.group, module_id.id, module_id.ext>>
    \o SubSeq(property.id, 1, Min(Len(property.id), 251))

\* the readable properties that are listed under the requested id
ListedReadableBase ==
    {i \in 1..Len(input.properties) :
        /\ input.properties[i].read.some
        /\ ListedBaseId(input.properties[i]) = RequestedId}
ListedReadableModule ==
    IF input.module_properties.some
    THEN {i \in 1..Len(input.module_properties.v.props) :
            /\ input.module_properties.v.props[i].read.some
            /\ ListedModuleId(input.module_properties.v.id,
                              input.module_properties.v.props[i]) = RequestedId}
    ELSE {}

\* C21: for every id that ListComponentsResponder::write emits for a property with
\* a read callback (a base id, or a synthetic [0x40,g,i,e,local id] module id), a
\* RetrieveProperty request carrying exactly that id and its length is answered
\* with Response::Ok and that property's read callback, not with NotAvailable; this
\* includes ids longer than 8 bytes and module-local ids longer than 4 bytes.
C21_ListedIdsAreRetrievable ==
    RetrieveAnswered
    => /\ \A i \in ListedReadableBase :
             /\ wres.w.out # <<241, input.request.id>>
             /\ \E j \in ListedReadableBase :
                   /\ calls = <<[name |-> input.properties[j].read.v.name, ctx |-> "t"]>>
                   /\ wres.w.out = OkHeaderBytes(input.properties[j])
                                    \o input.properties[j].read.v.value
       /\ \A i \in ListedReadableModule :
             /\ wres.w.out # <<241, input.request.id>>
             /\ \E j \in ListedReadableModule :
                   /\ calls = <<[name |-> input.module_properties.v.props[j].read.v.name,
                                 ctx |-> "m"]>>
                   /\ wres.w.out = OkHeaderBytes(input.module_properties.v.props[j])
                                    \o input.module_properties.v.props[j].read.v.value

(***************************************************************************)
(* Termination of the dispatcher: the task is polled whenever it can       *)
(* proceed, and every socket operation it awaits completes (the timed      *)
(* receive at the latest when its timer fires).                            *)
(***************************************************************************)
DispatchFairness ==
    /\ WF_vars(BindStart \/ SendStart \/ RecvStart)
    /\ WF_vars(BindOk \/ BindErr)
    /\ WF_vars(SendOk \/ SendErr)
    /\ WF_vars(RecvTimeout \/ RecvErr \/ RecvFromRemote \/ RecvFromOther)

SpecDispatchLive == DispatchInit /\ [][DispatchNext]_vars /\ DispatchFairness

\* the values dispatch_async can return
Outcomes == {"Ok", "Io", "ProtocolError", "Timeout"}

\* C22: if every send and every timed receive completes (with a datagram, an error
\* or a timeout), Request::dispatch_async always terminates with exactly one of
\* Ok, Io, ProtocolError or Timeout, and the number of send operations performed
\* never exceeds resend_attempts, whatever mix of timeouts and wrong-source
\* datagrams occurs.
C22_DispatchTerminates ==
    /\ <>(pc = "returned")
    /\ [](pc = "returned" <=> result.tag \in Outcomes)
    /\ [](pc # "returned" => result.tag = "Pending")
    /\ [][pc = "returned" => UNCHANGED vars]_vars
    /\ [](Cardinality(StartsOf("send")) <= Attempts)

\* all attempts were used up by a mix of timeouts and wrong-source datagrams
C22_Witness ==
    /\ pc = "returned"
    /\ result = DispatchError_Timeout
    /\ Attempts = MaxAttempts
    /\ Cardinality(StartsOf("send")) = Attempts
    /\ \E i \in 1..Len(events) : ForeignAt(i)
    /\ \E i \in 1..Len(events) : events[i].outcome = "timeout"

(***************************************************************************)
(* Failures of the retrieve responder (checked under SpecProps)            *)
(***************************************************************************)
\* the payload holds fewer id bytes than the responder reads
ShortPayload == Len(input.payload) < Min(input.request.len, 8)

\* the routing selects a property that can be read
RoutedReadable == RoutedHits # {} /\ RoutedProperty.read.some

\* the complete answer for the selected property: Ok header, then the callback's output
RoutedAnswer == OkHeaderBytes(RoutedProperty) \o RoutedProperty.read.v.value

\* C23: in RetrievePropertyResponder::write a failure is returned as that error and
\* NotAvailable is never written for it: a payload holding fewer id bytes than
\* min(prop_id_len, 8) returns UnexpectedEOF with nothing written; when the Ok
\* header write or the matched read callback fails, the error is returned and the
\* bytes written so far (the Ok header, the callback's output) stay in the output;
\* no call writes both an Ok header and a NotAvailable header.
C23_FailuresAreReturned ==
    (pc = "done" /\ input.kind = "retrieve")
    => IF ShortPayload
       THEN wres.err = "UnexpectedEOF" /\ wres.w.out = <<>> /\ calls = <<>>
       ELSE IF RoutedReadable
       THEN /\ Len(wres.w.out) <= Len(RoutedAnswer)
            /\ wres.w.out = SubSeq(RoutedAnswer, 1, Len(wres.w.out))
            /\ IF input.cap < Len(OkHeaderBytes(RoutedProperty))
               THEN /\ wres.err = "BufferToSmall"
                    /\ Len(wres.w.out) = input.cap
                    /\ calls = <<>>
               ELSE /\ calls = <<[name |-> RoutedProperty.read.v.name,
                                  ctx |-> RoutedContext]>>
                    /\ IF input.cap < Len(RoutedAnswer)
                       THEN /\ wres.err = "BufferToSmall"
                            /\ wres.w.out = OkHeaderBytes(RoutedProperty)
                       ELSE /\ wres.w.out = RoutedAnswer
                            /\ wres.err = (IF RoutedProperty.read.v.fails
                                           THEN "UnexpectedEOF" ELSE "Ok")
       ELSE /\ wres.err = "Ok"
            /\ wres.w.out = <<241, input.request.id>>
            /\ calls = <<>>

\* a read callback failed after writing: its error was returned and the Ok header
\* and the callback's output stayed in the output
C23_Witness ==
    /\ pc = "done" /\ input.kind = "retrieve"
    /\ ~ShortPayload
    /\ RoutedReadable
    /\ RoutedProperty.read.v.fails
    /\ RoutedProperty.read.v.value # <<>>
    /\ wres.err = "UnexpectedEOF"
    /\ wres.w.out = RoutedAnswer

=============================================================================
